---- MODULE Spec2Model ----
(***************************************************************************)
(* Request pipeline of the Express-Zod-Api boilerplate: routing table,     *)
(* method-provider middleware, input schemas of the two user endpoints,    *)
(* their handlers, the safe-execution helpers and the output schemas.      *)
(*                                                                         *)
(* Strings that the code inspects character by character (path segments,   *)
(* the id path parameter, the name body field) are sequences of one-       *)
(* character strings.  Fixed texts (HTTP error messages) are TLA+ strings. *)
(***************************************************************************)
EXTENDS Integers, Sequences, FiniteSets, TLC

(***************************************************************************)
(* Bounds of the model                                                     *)
(***************************************************************************)
\* longest id path value that is enumerated
MaxIdLen == 3
\* longest path (in segments) built from literal segments
MaxPathLen == 4
\* longest text returned or thrown by a function given to safe / safeAsync
MaxTextLen == 2
\* requests sent to the endpoint behind the documented middleware chain
MaxChainRequests == 3

(***************************************************************************)
(* JavaScript values: a tag, a string payload and a numeric payload        *)
(***************************************************************************)
Undefined == [t |-> "undefined", s |-> <<>>, n |-> 0]
NaN == [t |-> "nan", s |-> <<>>, n |-> 0]

Str(s) == [t |-> "string", s |-> s, n |-> 0]

Num(n) == [t |-> "number", s |-> <<>>, n |-> n]

Bool(b) == [t |-> "boolean", s |-> <<>>, n |-> IF b THEN 1 ELSE 0]

\* a pending Promise
Promise == [t |-> "promise", s |-> <<>>, n |-> 0]

IsString(v) == v.t = "string"

\* o[k] of an object: undefined when o has no property k
Get(o, k) == IF k \in DOMAIN o THEN o[k] ELSE Undefined

\* !v is false: v is neither undefined, null, NaN, 0, "" nor false
Truthy(v) ==
  CASE v.t = "string" -> v.s # <<>>
    [] v.t \in {"number", "boolean"} -> v.n # 0
    [] v.t \in {"undefined", "nan"} -> FALSE
    [] OTHER -> TRUE

\* v > k in JavaScript: every comparison with NaN is false
GreaterThan(v, k) == v.t = "number" /\ v.n > k

(***************************************************************************)
(* Characters                                                              *)
(***************************************************************************)
Digits == {"0", "1", "2", "3", "4", "5", "6", "7", "8", "9"}

DigitVal(c) ==
  CASE c = "0" -> 0 [] c = "1" -> 1 [] c = "2" -> 2 [] c = "3" -> 3
    [] c = "4" -> 4 [] c = "5" -> 5 [] c = "6" -> 6 [] c = "7" -> 7
    [] c = "8" -> 8 [] c = "9" -> 9

DigitChar(d) ==
  CASE d = 0 -> "0" [] d = 1 -> "1" [] d = 2 -> "2" [] d = 3 -> "3"
    [] d = 4 -> "4" [] d = 5 -> "5" [] d = 6 -> "6" [] d = 7 -> "7"
    [] d = 8 -> "8" [] d = 9 -> "9"

IsWhitespace(c) == c = " "

\* the characters an enumerated id path value is made of
IdChars == {"0", "1", "5", "a", ".", "-", " "}

(***************************************************************************)
(* String operations of the input schema of the id path parameter          *)
(***************************************************************************)
RECURSIVE TrimStart(_)
TrimStart(s) ==
  IF s # <<>> /\ IsWhitespace(Head(s)) THEN TrimStart(Tail(s)) ELSE s

RECURSIVE TrimEnd(_)
TrimEnd(s) ==
  IF s # <<>> /\ IsWhitespace(s[Len(s)])
    THEN TrimEnd(SubSeq(s, 1, Len(s) - 1))
    ELSE s

\* z.string().trim(): whitespace removed at both ends
Trim(s) == TrimEnd(TrimStart(s))

\* /\d+/.test(s): the pattern has no anchors, it matches when some
\* substring of s is a non-empty run of digits
RegexDigits(s) == \E i \in 1..Len(s) : s[i] \in Digits

\* value of the longest prefix of s made of digits, acc being the value of
\* the digits already read
RECURSIVE DigitsPrefix(_, _)
DigitsPrefix(s, acc) ==
  IF s # <<>> /\ Head(s) \in Digits
    THEN DigitsPrefix(Tail(s), 10 * acc + DigitVal(Head(s)))
    ELSE acc

\* parseInt(s, 10): leading whitespace is skipped, an optional sign is read,
\* then the longest run of digits; NaN when that run is empty; whatever
\* follows the run is ignored
ParseInt(s) ==
  LET t == TrimStart(s)
      neg == t # <<>> /\ Head(t) = "-"
      u == IF neg THEN Tail(t) ELSE t
  IN IF u = <<>> \/ Head(u) \notin Digits
       THEN NaN
       ELSE Num(IF neg THEN 0 - DigitsPrefix(u, 0) ELSE DigitsPrefix(u, 0))

\* decimal digits of a natural number
RECURSIVE NatToString(_)
NatToString(n) ==
  IF n < 10 THEN <<DigitChar(n)>>
            ELSE NatToString(n \div 10) \o <<DigitChar(n % 10)>>

\* `${v}` of a template literal
TemplateString(v) ==
  CASE v.t = "string" -> v.s
    [] v.t = "nan" -> <<"N", "a", "N">>
    [] v.t = "undefined" -> <<"undefined">>
    [] v.t = "promise" -> <<"[object Promise]">>
    [] v.t = "number" ->
         IF v.n < 0 THEN <<"-">> \o NatToString(0 - v.n) ELSE NatToString(v.n)

(***************************************************************************)
(* Input and output schemas of the endpoints.  A schema applied to a value *)
(* gives ok (does the value pass), the transformed value, and the names of *)
(* the fields with an issue.                                               *)
(***************************************************************************)
\* id: z.string().trim().regex(/\d+/).transform((id) => parseInt(id, 10))
IdSchema(v) ==
  IF IsString(v) /\ RegexDigits(Trim(v.s))
    THEN [ok |-> TRUE, value |-> ParseInt(Trim(v.s))]
    ELSE [ok |-> FALSE, value |-> Undefined]

\* name: z.string().min(1)
NameSchema(v) ==
  IF IsString(v) /\ Len(v.s) >= 1
    THEN [ok |-> TRUE, value |-> v]
    ELSE [ok |-> FALSE, value |-> Undefined]

\* getUserEndpoint.input: z.object({id}); keys that are not declared are
\* stripped
GetUserInput(raw) ==
  LET id == IdSchema(raw.id)
  IN [ok |-> id.ok,
      issues |-> IF id.ok THEN {} ELSE {"id"},
      value |-> [id |-> id.value, name |-> Undefined]]

\* updateUserEndpoint.input: z.object({id, name})
UpdateUserInput(raw) ==
  LET id == IdSchema(raw.id)
      name == NameSchema(raw.name)
  IN [ok |-> id.ok /\ name.ok,
      issues |-> (IF id.ok THEN {} ELSE {"id"})
                   \cup (IF name.ok THEN {} ELSE {"name"}),
      value |-> [id |-> id.value, name |-> name.value]]

\* a handler's return value and a response body: a function from field
\* names to values
NoBody == [f \in {} |-> Undefined]

\* an output schema declared without demoData: the key is stripped
GetUserOutputEmpty(v) == [ok |-> TRUE, body |-> NoBody]

\* getUserEndpoint.output: z.object({demoData: z.string()}); the body that
\* is sent is the parsed one, with the declared keys only
GetUserOutput(v) ==
  IF "demoData" \in DOMAIN v /\ IsString(v["demoData"])
    THEN [ok |-> TRUE, body |-> [f \in {"demoData"} |-> v[f]]]
    ELSE [ok |-> FALSE, body |-> NoBody]

\* ez.dateOut(): a valid Date, sent as its ISO string
IsDate(v) == v.t = "date"

\* updateUserEndpoint.output: z.object({name: z.string(), createdAt: ez.dateOut()})
UpdateUserOutput(v) ==
  IF /\ {"name", "createdAt"} \subseteq DOMAIN v
     /\ IsString(v["name"])
     /\ IsDate(v["createdAt"])
    THEN [ok |-> TRUE,
          body |-> [f \in {"name", "createdAt"} |->
                      IF f = "name" THEN v[f] ELSE Str(v[f].s)]]
    ELSE [ok |-> FALSE, body |-> NoBody]

(***************************************************************************)
(* Safe-execution helpers.  A wrapped function is described by what it     *)
(* does when called: it returns val, throws val, or (a function that       *)
(* gives a promise) rejects with val.  A thrown value is an Error object   *)
(* carrying its message.                                                   *)
(***************************************************************************)
ErrorObject(m) == [t |-> "error", s |-> m, n |-> 0]

Returns(v) == [kind |-> "return", val |-> v]

Throws(e) == [kind |-> "throw", val |-> e]

Rejects(e) == [kind |-> "reject", val |-> e]

\* interface SafeReturn<T> { ok: boolean; data: T | string }
SafeReturnValueError(ok, data) ==
  IF ok THEN [ok |-> ok, value |-> data] ELSE [ok |-> ok, error |-> data]

SafeReturn(ok, data) == [ok |-> ok, data |-> data]

\* how a call ends: normally with ret, or by raising thrown
Completed(ret) == [completion |-> "normal", ret |-> ret, thrown |-> Undefined]

Raised(e) ==
  [completion |-> "throw", ret |-> SafeReturn(FALSE, Undefined), thrown |-> e]

\* the description of a caught value: the message of the Error
ErrorMessage(e) == Str(e.s)

\* safe(fn): try { return {ok: true, data: fn()} } catch { {ok: false, data: message} }
Safe(fn) ==
  IF fn.kind = "return"
    THEN Completed(SafeReturn(TRUE, fn.val))
    ELSE Completed(SafeReturn(FALSE, ErrorMessage(fn.val)))

\* a helper that handles the rejection of the promise only
SafeAsyncRejectionOnly(fn) ==
  CASE fn.kind = "return" -> Completed(SafeReturn(TRUE, fn.val))
    [] fn.kind = "reject" -> Completed(SafeReturn(FALSE, ErrorMessage(fn.val)))
    [] fn.kind = "throw" -> Raised(fn.val)

\* safeAsync(fn): the same over await fn(); a synchronous throw of fn and a
\* rejection of its promise are both caught
SafeAsync(fn) ==
  IF fn.kind = "return"
    THEN Completed(SafeReturn(TRUE, fn.val))
    ELSE Completed(SafeReturn(FALSE, ErrorMessage(fn.val)))

(***************************************************************************)
(* What a step of the pipeline hands to the result handler                 *)
(***************************************************************************)
NoOutcome ==
  [kind |-> "none", value |-> NoBody, status |-> 0, message |-> "",
   issues |-> {}, fault |-> Undefined]

\* the handler resolved with v
Returned(v) == [NoOutcome EXCEPT !.kind = "return", !.value = v]

\* createHttpError(status, message)
HttpError(status, message) ==
  [NoOutcome EXCEPT !.kind = "httpError", !.status = status,
                    !.message = message]

\* any other value thrown inside the handler
Fault(e) == [NoOutcome EXCEPT !.kind = "fault", !.fault = e]

\* the handler is suspended at an await
Awaiting == [NoOutcome EXCEPT !.kind = "await"]

InputError(issues) == [NoOutcome EXCEPT !.kind = "inputError", !.issues = issues]

OutputError == [NoOutcome EXCEPT !.kind = "outputError"]

RouteNotFound == [NoOutcome EXCEPT !.kind = "notFound"]

MethodNotAllowed == [NoOutcome EXCEPT !.kind = "methodNotAllowed"]

(***************************************************************************)
(* Middleware and handlers of src/controllers/users.endpoints.ts           *)
(***************************************************************************)
\* String.prototype.toLowerCase on the request methods of the model
ToLowerCase(m) ==
  CASE m = "GET" -> "get" [] m = "POST" -> "post" [] m = "PUT" -> "put"
    [] OTHER -> m

\* a method provider that hands the method on as the request has it
MethodProviderMiddlewareRaw(req) == [k \in {"method"} |-> req.method]

\* methodProviderMiddleware.handler: resolves with {method}
MethodProviderMiddleware(req) ==
  [k \in {"method"} |-> ToLowerCase(req.method)]

\* id above which the example handlers answer "User not found"
NotFoundThreshold == 100

\* logger.debug(`Requested id: ${id}, method ${method}...`)
LogLine(id, method, name) ==
  [id |-> TemplateString(id), method |-> method, name |-> name]

GetUserHandlerStartInclusive(id) ==
  IF GreaterThan(id, NotFoundThreshold - 1)
    THEN HttpError(404, "User not found")
    ELSE Awaiting

\* getUserEndpoint.handler up to its await: the not-found check, then the
\* call of safeAsync
GetUserHandlerStart(id) ==
  IF GreaterThan(id, NotFoundThreshold)
    THEN HttpError(404, "User not found")
    ELSE Awaiting

Succeed(id) ==
  Returned([f \in {"demoData"} |->
    Str(<<"Querying User ">> \o TemplateString(id) \o <<" succeed!">>)])

FailedSafely(id, data) ==
  Returned([f \in {"demoData"} |->
    Str(<<"Querying User ">> \o TemplateString(id)
          \o <<" failed safely: ">> \o TemplateString(data))])

GetUserHandlerResumeSwapped(id, call) ==
  CASE call.completion = "throw" -> Fault(call.thrown)
    [] call.completion = "normal" /\ call.ret.ok ->
         FailedSafely(id, call.ret.data)
    [] OTHER -> Succeed(id)

\* a handler that turns the failure of the optional operation into a fault
GetUserHandlerResumeEscalates(id, call) ==
  CASE call.completion = "throw" -> Fault(call.thrown)
    [] call.completion = "normal" /\ ~call.ret.ok -> Fault(call.ret.data)
    [] OTHER -> Succeed(id)

\* getUserEndpoint.handler after its await, call being how safeAsync ended
GetUserHandlerResume(id, call) ==
  CASE call.completion = "throw" -> Fault(call.thrown)
    [] call.completion = "normal" /\ ~call.ret.ok ->
         FailedSafely(id, call.ret.data)
    [] OTHER -> Succeed(id)

UpdateUserHandlerSwapped(id) ==
  IF GreaterThan(id, NotFoundThreshold)
    THEN HttpError(500, "Not implemented yet!")
    ELSE HttpError(404, "User not found")

\* updateUserEndpoint.handler: it always throws
UpdateUserHandler(id) ==
  IF GreaterThan(id, NotFoundThreshold)
    THEN HttpError(404, "User not found")
    ELSE HttpError(500, "Not implemented yet!")

(***************************************************************************)
(* The documented middleware (middlewares instructions) and the endpoint   *)
(* that combines them.  A middleware applied to the request headers gives  *)
(* ok, its contribution to the options, or the error it fails with.        *)
(***************************************************************************)
NoContribution == [k \in {} |-> Undefined]

Contributes(c, store) ==
  [ok |-> TRUE, contribution |-> c, error |-> NoOutcome, store |-> store]

FailsWith(e, store) ==
  [ok |-> FALSE, contribution |-> NoContribution, error |-> e, store |-> store]

\* randomUUID()
RandomUUID == Str(<<"uuid">>)

\* requestIdMiddleware: input['x-request-id'] || randomUUID()
RequestIdMiddleware(h, store) ==
  IF h.xRequestId.t \notin {"string", "undefined"}
    THEN FailsWith(InputError({"x-request-id"}), store)
    ELSE Contributes(
           [k \in {"requestId"} |->
              IF Truthy(h.xRequestId) THEN h.xRequestId ELSE RandomUUID],
           store)

\* /^Bearer .+/ on a text given as its words: the first is "Bearer " and
\* something follows
RegexBearer(s) == Len(s) >= 2 /\ Head(s) = "Bearer "

\* authMiddleware: 401 without a header or with a token that validateToken
\* rejects (userId is what validateToken gave)
AuthMiddleware(h, store, userId) ==
  IF ~(h.authorization.t = "undefined"
         \/ (IsString(h.authorization) /\ RegexBearer(h.authorization.s)))
    THEN FailsWith(InputError({"authorization"}), store)
  ELSE IF ~Truthy(h.authorization)
    THEN FailsWith(HttpError(401, "Authorization header required"), store)
  ELSE IF ~Truthy(userId)
    THEN FailsWith(HttpError(401, "Invalid or expired token"), store)
  ELSE Contributes(
         [k \in {"userId", "isAuthenticated"} |->
            IF k = "userId" THEN userId ELSE Bool(TRUE)],
         store)

\* const maxRequests = 100
MaxRequests == 100

\* input['x-forwarded-for'] || request.connection.remoteAddress || 'unknown'
ClientIp(h) ==
  IF Truthy(h.xForwardedFor) THEN h.xForwardedFor.s
  ELSE IF Truthy(h.remoteAddress) THEN h.remoteAddress.s
  ELSE <<"unknown">>

\* rateLimitMiddleware: the count of the client is set to 1 when its window
\* has expired and incremented otherwise, stored, and compared with
\* maxRequests
RateLimitMiddleware(h, store, expired) ==
  IF h.xForwardedFor.t \notin {"string", "undefined"}
    THEN FailsWith(InputError({"x-forwarded-for"}), store)
    ELSE LET ip == ClientIp(h)
             known == ip \in DOMAIN store
             count == IF known /\ expired THEN 1
                      ELSE IF known THEN store[ip] + 1
                      ELSE 1
             stored == [i \in DOMAIN store \cup {ip} |->
                          IF i = ip THEN count ELSE store[i]]
         IN IF count > MaxRequests
              THEN FailsWith(HttpError(429, "Too many requests"), stored)
              ELSE Contributes(
                     [k \in {"requestCount", "clientIp"} |->
                        IF k = "requestCount" THEN Num(count) ELSE Str(ip)],
                     stored)

\* protectedEndpoint: addMiddleware(requestIdMiddleware)
\* .addMiddleware(authMiddleware).addMiddleware(rateLimitMiddleware)
ProtectedChain ==
  <<"requestIdMiddleware", "authMiddleware", "rateLimitMiddleware">>

MiddlewareResult(name, h, store, userId, expired) ==
  CASE name = "requestIdMiddleware" -> RequestIdMiddleware(h, store)
    [] name = "authMiddleware" -> AuthMiddleware(h, store, userId)
    [] name = "rateLimitMiddleware" -> RateLimitMiddleware(h, store, expired)

\* protectedEndpoint.handler
ProtectedHandler(opts) ==
  Returned([f \in {"message", "userId", "requestId"} |->
    CASE f = "message" -> Str(<<"Protected resource accessed">>)
      [] f = "userId" -> Get(opts, "userId")
      [] f = "requestId" -> Get(opts, "requestId")])

\* protectedEndpoint.output
ProtectedOutput(v) ==
  IF /\ {"message", "userId", "requestId"} \subseteq DOMAIN v
     /\ IsString(v["message"])
     /\ v["userId"].t = "number"
     /\ IsString(v["requestId"])
    THEN [ok |-> TRUE, body |-> [f \in {"message", "userId", "requestId"} |-> v[f]]]
    ELSE [ok |-> FALSE, body |-> NoBody]

(***************************************************************************)
(* Configuration: EnvFileSchema and Environment applied to process.env,    *)
(* a function from variable names to a text or undefined                   *)
(***************************************************************************)
OptionNames ==
  {"PORT", "CORS_ENABLED", "COMPRESSION_ENABLED", "UPLOAD_ENABLED",
   "LOG_LEVEL", "LOG_COLORED", "GENERATE_CLIENT", "GENERATE_API_DOCS",
   "API_VERSION", "API_TITLE", "API_SERVER_URL"}

EnvNames == OptionNames \cup {"NODE_ENV"}

\* Number(s) of a text without fraction, exponent or radix prefix: blanks
\* at both ends are dropped, the empty text is 0, an optional sign and
\* digits give their value, anything else NaN
ToNumber(s) ==
  LET t == Trim(s)
      neg == t # <<>> /\ Head(t) = "-"
      u == IF neg THEN Tail(t) ELSE t
  IN IF t = <<>> THEN Num(0)
     ELSE IF u # <<>> /\ \A i \in 1..Len(u) : u[i] \in Digits
       THEN Num(IF neg THEN 0 - DigitsPrefix(u, 0) ELSE DigitsPrefix(u, 0))
     ELSE NaN

Valid(v) == [ok |-> TRUE, value |-> v]

Invalid == [ok |-> FALSE, value |-> Undefined]

\* a z.coerce.number() that lets NaN through
CoerceNumberLenient(v, default) ==
  IF v = Undefined THEN Valid(Num(default)) ELSE Valid(ToNumber(v.s))

\* z.coerce.number().default(d): Number(v), NaN is rejected
CoerceNumber(v, default) ==
  IF v = Undefined THEN Valid(Num(default))
  ELSE IF ToNumber(v.s) = NaN THEN Invalid
  ELSE Valid(ToNumber(v.s))

\* z.coerce.boolean().default(d): Boolean(v), which never fails
CoerceBoolean(v, default) ==
  IF v = Undefined THEN Valid(Bool(default)) ELSE Valid(Bool(Truthy(v)))

\* z.enum(values).default(d)
Enum(v, values, default) ==
  IF v = Undefined THEN Valid(default)
  ELSE IF v \in values THEN Valid(v)
  ELSE Invalid

\* z.coerce.string().default(d): String(v)
CoerceString(v, default) == IF v = Undefined THEN Valid(default) ELSE Valid(v)

\* PORT: z.coerce.number().default(8090)
DefaultPort == 8090

LogLevels == {Str(<<"silent">>), Str(<<"warn">>), Str(<<"debug">>)}

\* the schema of one option of EnvFileSchema applied to its value
OptionSchema(k, v) ==
  CASE k = "PORT" -> CoerceNumber(v, DefaultPort)
    [] k \in {"CORS_ENABLED", "COMPRESSION_ENABLED", "UPLOAD_ENABLED",
              "LOG_COLORED", "GENERATE_CLIENT", "GENERATE_API_DOCS"} ->
         CoerceBoolean(v, TRUE)
    [] k = "LOG_LEVEL" -> Enum(v, LogLevels, Str(<<"debug">>))
    [] k = "API_VERSION" -> CoerceString(v, Str(<<"0.0.1">>))
    [] k = "API_TITLE" -> CoerceString(v, Str(<<"my-api">>))
    [] k = "API_SERVER_URL" ->
         CoerceString(v, Str(<<"http://localhost:8090/v1">>))

\* process.env.NODE_ENV === "production"
IsProduction(e) == e["NODE_ENV"] = Str(<<"production">>)

\* no configuration object
NoConfig == [k \in {} |-> Undefined]

\* EnvFileSchema.parse(process.env): the object of the parsed options, the
\* other variables of the environment stripped, or a throw that names the
\* options with an issue
EnvFileSchema(e) ==
  LET issues == {k \in OptionNames : ~OptionSchema(k, e[k]).ok}
  IN IF issues = {}
       THEN [ok |-> TRUE, issues |-> {},
             value |-> [k \in OptionNames |-> OptionSchema(k, e[k]).value]]
       ELSE [ok |-> FALSE, issues |-> issues, value |-> NoConfig]

\* an environment schema that takes every text, and development when unset
EnvironmentOpen(v) ==
  IF v = Undefined THEN Valid(Str(<<"development">>)) ELSE Valid(v)

\* Environment = z.enum(['production', 'development'])
Environment(v) ==
  IF v \in {Str(<<"production">>), Str(<<"development">>)}
    THEN Valid(v) ELSE Invalid

(***************************************************************************)
(* Routing table                                                           *)
(***************************************************************************)
V1 == <<"v", "1">>
V2 == <<"v", "2">>
USER == <<"u", "s", "e", "r">>
EXTRA == <<"e", "x", "t", "r", "a">>

Literal(seg) == [param |-> FALSE, seg |-> seg]

\* a path variable, written ':name' in the routing table
Param(name) == [param |-> TRUE, seg |-> name]

\* routing = {v1: {user: {':id': new DependsOnMethod({get, post})}}}
\* one entry per leaf: its path pattern and its per-method map
Routing ==
  << [pattern |-> <<Literal(V1), Literal(USER), Param(<<"i", "d">>)>>,
      methods |-> [m \in {"get", "post"} |->
                     IF m = "get" THEN "getUserEndpoint"
                                  ELSE "updateUserEndpoint"]] >>

\* a path matches a pattern segment by segment: a literal matches itself, a
\* path variable any non-empty segment
Matches(pattern, path) ==
  /\ Len(pattern) = Len(path)
  /\ \A i \in 1..Len(pattern) :
       IF pattern[i].param THEN path[i] # <<>>
                           ELSE path[i] = pattern[i].seg

MatchingRoutes(path) ==
  {i \in 1..Len(Routing) : Matches(Routing[i].pattern, path)}

FirstMatch(path) ==
  CHOOSE i \in MatchingRoutes(path) : \A j \in MatchingRoutes(path) : i <= j

ResolveAlwaysNotFound(path, method) ==
  IF MatchingRoutes(path) = {}
       \/ ToLowerCase(method) \notin DOMAIN Routing[FirstMatch(path)].methods
    THEN "notFound"
    ELSE Routing[FirstMatch(path)].methods[ToLowerCase(method)]

\* the endpoint of (path, method); "notFound" when no leaf matches the
\* path, "methodNotAllowed" when one does and has no entry for the method
Resolve(path, method) ==
  IF MatchingRoutes(path) = {}
    THEN "notFound"
    ELSE LET leaf == Routing[FirstMatch(path)]
         IN IF ToLowerCase(method) \in DOMAIN leaf.methods
              THEN leaf.methods[ToLowerCase(method)]
              ELSE "methodNotAllowed"

\* request.params: the value of the path variable named name
PathParam(path, name) ==
  LET pattern == Routing[FirstMatch(path)].pattern
      i == CHOOSE k \in 1..Len(pattern) :
             pattern[k].param /\ pattern[k].seg = name
  IN Str(path[i])

(***************************************************************************)
(* Generators: what the Documentation and the Integration of the library   *)
(* are given, and what the scripts write                                   *)
(***************************************************************************)
\* what build() is given for each endpoint besides schemas and handler
EndpointDeclaration(ep) ==
  IF ep = "getUserEndpoint"
    THEN [method |-> "get", tag |-> "users",
          shortDescription |-> "Retrieves an user by its ID.",
          description |-> "Example user retrieval endpoint.",
          inputExamples |-> {[k \in {"id"} |-> Num(12)]},
          outputExamples |->
            {[k \in {"demoData"} |-> Str(<<"Querying User 12 succeed!">>)]}]
    ELSE [method |-> "post", tag |-> "users",
          shortDescription |-> "Updates an user by its ID.",
          description |-> "Example user retrieval endpoint.",
          inputExamples |->
            {[k \in {"id", "name"} |->
                IF k = "id" THEN Num(12) ELSE Str(<<"John Doe">>)]},
          outputExamples |-> {}]

\* the pairs of the get method only
RoutedPairsGetOnly(routing) ==
  {<<i, "get">> : i \in {j \in DOMAIN routing : "get" \in DOMAIN routing[j].methods}}

\* the (leaf, method) pairs of a routing table
RoutedPairs(routing) ==
  UNION {{<<i, m>> : m \in DOMAIN routing[i].methods} : i \in DOMAIN routing}

\* the operation documented for method m of leaf i
Operation(routing, i, m) ==
  LET decl == EndpointDeclaration(routing[i].methods[m])
  IN [path |-> routing[i].pattern, method |-> m,
      endpoint |-> routing[i].methods[m], tag |-> decl.tag,
      summary |-> decl.shortDescription, description |-> decl.description,
      inputExamples |-> decl.inputExamples,
      outputExamples |-> decl.outputExamples]

NoDocument ==
  [ok |-> FALSE, title |-> Undefined, version |-> Undefined,
   serverUrl |-> Undefined, operations |-> {}]

\* a documentation that gives up when an endpoint declares no output example
DocumentationStrict(routing, config) ==
  IF \E p \in RoutedPairs(routing) :
       Operation(routing, p[1], p[2]).outputExamples = {}
    THEN NoDocument
    ELSE [ok |-> TRUE, title |-> Get(config, "API_TITLE"),
          version |-> Get(config, "API_VERSION"),
          serverUrl |-> Get(config, "API_SERVER_URL"),
          operations |-> {Operation(routing, p[1], p[2]) :
                            p \in RoutedPairs(routing)}]

\* new Documentation({routing, config, version, title, serverUrl}): one
\* operation for every method of every leaf of the routing
Documentation(routing, config) ==
  [ok |-> TRUE, title |-> Get(config, "API_TITLE"),
   version |-> Get(config, "API_VERSION"),
   serverUrl |-> Get(config, "API_SERVER_URL"),
   operations |-> {Operation(routing, p[1], p[2]) :
                     p \in RoutedPairs(routing)}]

\* new Integration({routing, variant: "client"}): one entry for every
\* method of every leaf of the routing
Integration(routing) ==
  {[path |-> routing[p[1]].pattern, method |-> p[2]] :
     p \in RoutedPairs(routing)}

\* client.printFormatted() is an async method: it gives a Promise
PrintFormatted(client) == Promise

\* `/* eslint-disable ... */\r\n${client.printFormatted()}`
ClientSource(client) ==
  Str(<<"/* eslint-disable @typescript-eslint/no-explicit-any */\r\n">>
        \o TemplateString(PrintFormatted(client)))

ClientFile == "./src/client/client.ts"

DocsFile == "./src/docs/api.yaml"

(***************************************************************************)
(* Requests                                                                *)
(***************************************************************************)
SeqsUpTo(S, lo, hi) == UNION {[1..k -> S] : k \in lo..hi}

\* values of the id path parameter
IdStrings == SeqsUpTo(IdChars, 1, MaxIdLen)

LiteralSegments == {V1, V2, USER, EXTRA}

Paths ==
  SeqsUpTo(LiteralSegments, 0, MaxPathLen)
    \cup {<<V1, USER, s>> : s \in IdStrings}

Methods == {"GET", "POST", "PUT"}

\* values of the body field name: absent, empty, a text, a number
Names == {Undefined, Str(<<>>), Str(<<"J", "o", "h", "n">>), Num(7)}

\* a GET request carries no body
Requests ==
  {r \in [method : Methods, path : Paths, name : Names] :
     r.method = "GET" => r.name = Undefined}

\* what exampleWithRandomThrow, wrapped in an async function, can do
ExampleOutcomes ==
  {Returns(Undefined), Rejects(ErrorObject(<<"Random error">>))}

(***************************************************************************)
(* Result handler (defaultResultHandler of the endpoints factory): the     *)
(* response made of what the pipeline produced                             *)
(***************************************************************************)
NoResponse ==
  [kind |-> "none", status |-> 0, cause |-> "", message |-> "",
   body |-> NoBody, issues |-> {}]

ErrorResponse(status, cause, message, issues) ==
  [kind |-> "error", status |-> status, cause |-> cause,
   message |-> message, body |-> NoBody, issues |-> issues]

\* a text given as its pieces, as one string
RECURSIVE Join(_)
Join(s) == IF s = <<>> THEN "" ELSE Head(s) \o Join(Tail(s))

\* the message of an error made of a status alone
StatusMessage(status) ==
  CASE status = 500 -> "Internal Server Error"
    [] status = 503 -> "Service Unavailable"
    [] OTHER -> "Error"

\* an error made with createHttpError exposes its message when its status
\* is below 500; in production the message of an error that does not
\* expose it is replaced by the one of its status
PublicMessage(status, message, production) ==
  IF production /\ status >= 500 THEN StatusMessage(status) ELSE message

\* a result handler that sends the message of every error as it is
ResultHandlerExposing(o, production) ==
  CASE o.kind = "return" ->
         [kind |-> "success", status |-> 200, cause |-> "", message |-> "",
          body |-> o.value, issues |-> {}]
    [] o.kind = "httpError" ->
         ErrorResponse(o.status, "HandlerSignaledError", o.message, {})
    [] o.kind = "inputError" ->
         ErrorResponse(400, "ValidationError", "", o.issues)
    [] o.kind = "outputError" ->
         ErrorResponse(500, "OutputContractViolation", "", {})
    [] o.kind = "notFound" -> ErrorResponse(404, "NotFound", "", {})
    [] o.kind = "methodNotAllowed" ->
         ErrorResponse(405, "MethodNotAllowed", "", {})
    [] OTHER -> ErrorResponse(500, "UnexpectedFault", Join(o.fault.s), {})

\* defaultResultHandler: a value is sent with status 200; an error is sent
\* with its status (500 for a thrown value that is no HTTP error, whose
\* message is kept) and its public message
ResultHandler(o, production) ==
  CASE o.kind = "return" ->
         [kind |-> "success", status |-> 200, cause |-> "", message |-> "",
          body |-> o.value, issues |-> {}]
    [] o.kind = "httpError" ->
         ErrorResponse(o.status, "HandlerSignaledError",
                       PublicMessage(o.status, o.message, production), {})
    [] o.kind = "inputError" ->
         ErrorResponse(400, "ValidationError", "", o.issues)
    [] o.kind = "outputError" ->
         ErrorResponse(500, "OutputContractViolation",
                       PublicMessage(500, "", production), {})
    [] o.kind = "notFound" -> ErrorResponse(404, "NotFound", "", {})
    [] o.kind = "methodNotAllowed" ->
         ErrorResponse(405, "MethodNotAllowed", "", {})
    [] OTHER ->
         ErrorResponse(500, "UnexpectedFault",
                       PublicMessage(500, Join(o.fault.s), production), {})

(***************************************************************************)
(* State                                                                   *)
(***************************************************************************)
VARIABLES
  pc,          \* step of the pipeline the request in flight is at
  request,     \* the request in flight: method, path, body field name
  endpoint,    \* what the routing table resolved the request to
  options,     \* context contributed by the middleware
  input,       \* validated input handed to the handler
  invoked,     \* number of times a handler was invoked for the request
  logged,      \* lines written by logger.debug for the request
  example,     \* what exampleWithRandomThrow did in this request
  exampleCalls, \* number of calls of exampleWithRandomThrow for the request
  call,        \* how the handler's call of safeAsync ended
  outcome,     \* what the pipeline hands to the result handler
  response,    \* the response sent
  steps,       \* steps of the pipeline taken for the request, in order
  last,        \* status of the response to the previous request, 0 if none
  safeFn,      \* function given to a direct call of safe / safeAsync
  safeCall,    \* how that call ended
  headers,     \* headers of the request in flight
  rateLimitStore, \* rateLimitStore: request count of each client
  chainCount,  \* requests received by protectedEndpoint
  env,         \* process.env after dotenv.config()
  proc,        \* where the process is: start, loading, bootstrap,
               \* listening, exited
  loaded,      \* the bootstrap module the entry point imported
  envConfig,   \* the configuration object, NoConfig until it is produced
  currentEnvironment, \* the parsed NODE_ENV
  started,     \* generators whose import the bootstrap initiated
  files,       \* files written by the generators
  exitCode,    \* exit code of the process once it has exited
  server,      \* "created" once createServer has been called
  writable,    \* the files that writeFileSync can write
  inflight     \* the requests in flight when several are, by slot

vars ==
  <<pc, request, endpoint, options, input, invoked, logged, example,
    exampleCalls, call,
    outcome, response, steps, last, safeFn, safeCall, headers,
    rateLimitStore, chainCount, env, proc, loaded, envConfig,
    currentEnvironment, started, files, exitCode, server, writable,
    inflight>>

chainVars == <<headers, rateLimitStore, chainCount>>

bootVars ==
  <<env, proc, loaded, envConfig, currentEnvironment, started, files,
    exitCode, server, writable>>

pipelineVars ==
  <<pc, request, endpoint, options, input, invoked, logged, example,
    exampleCalls, call,
    outcome, response, steps, last>>

NoRequest == [method |-> "", path |-> <<>>, name |-> Undefined]

NoOptions == [k \in {} |-> ""]

NoInput == [id |-> Undefined, name |-> Undefined]

NoFn == [kind |-> "none", val |-> Undefined]

NoHeaders ==
  [authorization |-> Undefined, xRequestId |-> Undefined,
   xForwardedFor |-> Undefined, remoteAddress |-> Undefined]

NoCall == [completion |-> "none", ret |-> SafeReturn(FALSE, Undefined),
           thrown |-> Undefined]

\* requests the server works on at the same time
MaxInFlight == 2

Slots == 1..MaxInFlight

\* a slot without a request
IdleSlot ==
  [pc |-> "idle", request |-> NoRequest, endpoint |-> "none",
   options |-> NoOptions, input |-> NoInput, logged |-> <<>>,
   outcome |-> NoOutcome, response |-> NoResponse]

NoneInFlight == [i \in Slots |-> IdleSlot]

\* no request in flight, nothing called yet
InitRequest ==
  /\ pc = "idle"
  /\ request = NoRequest
  /\ endpoint = "none"
  /\ options = NoOptions
  /\ input = NoInput
  /\ invoked = 0
  /\ logged = <<>>
  /\ example = NoFn
  /\ exampleCalls = 0
  /\ call = NoCall
  /\ outcome = NoOutcome
  /\ response = NoResponse
  /\ steps = <<>>
  /\ last = 0
  /\ safeFn = NoFn
  /\ safeCall = NoCall
  /\ headers = NoHeaders
  /\ chainCount = 0
  /\ inflight = NoneInFlight

Generators == {"clientGenerator", "docsGenerator"}

NoFiles == [f \in {} |-> Undefined]

\* npm run dev: NODE_ENV=development, every option left to its default
DevelopmentEnv ==
  [k \in EnvNames |->
     IF k = "NODE_ENV" THEN Str(<<"development">>) ELSE Undefined]

\* the server started by npm run dev, once both generators have written
InitServing ==
  /\ env = DevelopmentEnv
  /\ proc = "listening"
  /\ loaded = "index.dev"
  /\ envConfig = EnvFileSchema(DevelopmentEnv).value
  /\ currentEnvironment = Str(<<"development">>)
  /\ started = Generators
  /\ files = [f \in {ClientFile, DocsFile} |->
               IF f = ClientFile
                 THEN ClientSource(Integration(Routing))
                 ELSE Documentation(Routing, EnvFileSchema(DevelopmentEnv).value)]
  /\ exitCode = 0
  /\ server = "created"
  /\ writable = {ClientFile, DocsFile}

\* npm start: NODE_ENV=production, every option left to its default
ProductionEnv ==
  [k \in EnvNames |->
     IF k = "NODE_ENV" THEN Str(<<"production">>) ELSE Undefined]

\* the server started by npm start: no generator is started
InitServingProduction ==
  /\ env = ProductionEnv
  /\ proc = "listening"
  /\ loaded = "index.prod"
  /\ envConfig = EnvFileSchema(ProductionEnv).value
  /\ currentEnvironment = Str(<<"production">>)
  /\ started = {}
  /\ files = NoFiles
  /\ exitCode = 0
  /\ server = "created"
  /\ writable = {ClientFile, DocsFile}

Init ==
  /\ InitRequest
  /\ rateLimitStore = [i \in {} |-> 0]
  /\ InitServing

(***************************************************************************)
(* Pipeline of one request                                                 *)
(***************************************************************************)
\* a pipeline that lets what a handler throws leave it: the rejection is
\* unhandled and the process ends
PipelineBoundaryUncaught(o) ==
  CASE o.kind = "await" -> "awaiting"
    [] o.kind = "return" -> "output"
    [] OTHER -> "crashed"

\* where the pipeline goes with what a handler did: it waits for a
\* suspended handler, validates a returned value, and catches whatever
\* was thrown to hand it to the result handler
PipelineBoundary(o) ==
  CASE o.kind = "await" -> "awaiting"
    [] o.kind = "return" -> "output"
    [] OTHER -> "respond"

\* a request out of R arrives when none is in flight
ReceiveFrom(R) ==
  /\ pc = "idle"
  /\ proc = "listening"
  /\ \E r \in R : request' = r
  /\ pc' = "routing"
  /\ endpoint' = "none"
  /\ options' = NoOptions
  /\ input' = NoInput
  /\ invoked' = 0
  /\ logged' = <<>>
  /\ example' = NoFn
  /\ exampleCalls' = 0
  /\ call' = NoCall
  /\ outcome' = NoOutcome
  /\ response' = NoResponse
  /\ steps' = <<>>
  /\ UNCHANGED <<last, safeFn, safeCall, chainVars,
                 bootVars>>
  /\ UNCHANGED inflight

Receive == ReceiveFrom(Requests)

\* a router that remembers the last miss and answers it again
RouteRemembering ==
  /\ pc = "routing"
  /\ endpoint' = IF last = 404 THEN "notFound"
                              ELSE Resolve(request.path, request.method)
  /\ IF endpoint' = "notFound"
       THEN outcome' = RouteNotFound /\ pc' = "respond"
       ELSE IF endpoint' = "methodNotAllowed"
              THEN outcome' = MethodNotAllowed /\ pc' = "respond"
              ELSE outcome' = outcome /\ pc' = "middleware"
  /\ UNCHANGED <<request, options, input, invoked, logged, example,
                 exampleCalls, call,
                 response, steps, last, safeFn, safeCall, chainVars,
                 bootVars>>
  /\ UNCHANGED inflight

\* the routing table resolves path and method
Route ==
  /\ pc = "routing"
  /\ endpoint' = Resolve(request.path, request.method)
  /\ IF endpoint' = "notFound"
       THEN outcome' = RouteNotFound /\ pc' = "respond"
       ELSE IF endpoint' = "methodNotAllowed"
              THEN outcome' = MethodNotAllowed /\ pc' = "respond"
              ELSE outcome' = outcome /\ pc' = "middleware"
  /\ UNCHANGED <<request, options, input, invoked, logged, example,
                 exampleCalls, call,
                 response, steps, last, safeFn, safeCall, chainVars,
                 bootVars>>
  /\ UNCHANGED inflight

\* the chain added with addMiddleware: methodProviderMiddleware, whose
\* contribution is merged into the options of the handler
RunMiddleware ==
  /\ pc = "middleware"
  /\ options' = MethodProviderMiddleware(request) @@ options
  /\ pc' = "input"
  /\ steps' = Append(steps, "middleware")
  /\ UNCHANGED <<request, endpoint, input, invoked, logged, example,
                 exampleCalls, call,
                 outcome, response, last, safeFn, safeCall, chainVars,
                 bootVars>>
  /\ UNCHANGED inflight

\* path parameters and body, merged into one object
RawInput(req) == [id |-> PathParam(req.path, <<"i", "d">>), name |-> req.name]

InputSchema(ep, raw) ==
  IF ep = "getUserEndpoint" THEN GetUserInput(raw) ELSE UpdateUserInput(raw)

OutputSchema(ep, v) ==
  CASE ep = "getUserEndpoint" -> GetUserOutput(v)
    [] ep = "protectedEndpoint" -> ProtectedOutput(v)
    [] OTHER -> UpdateUserOutput(v)

\* a pipeline that hands the raw input to the handler when validation fails
ValidateInputNoStop ==
  /\ pc = "input"
  /\ endpoint # "protectedEndpoint"
  /\ LET parsed == InputSchema(endpoint, RawInput(request))
     IN input' = parsed.value
  /\ outcome' = outcome
  /\ pc' = "handler"
  /\ steps' = Append(steps, "input")
  /\ UNCHANGED <<request, endpoint, options, invoked, logged, example,
                 exampleCalls, call,
                 response, last, safeFn, safeCall, chainVars,
                 bootVars>>
  /\ UNCHANGED inflight

\* the input schema of the endpoint validates and transforms the raw input
ValidateInput ==
  /\ pc = "input"
  /\ endpoint # "protectedEndpoint"
  /\ LET parsed == InputSchema(endpoint, RawInput(request))
     IN IF parsed.ok
          THEN input' = parsed.value /\ outcome' = outcome /\ pc' = "handler"
          ELSE /\ input' = input
               /\ outcome' = InputError(parsed.issues)
               /\ pc' = "respond"
  /\ steps' = Append(steps, "input")
  /\ UNCHANGED <<request, endpoint, options, invoked, logged, example,
                 exampleCalls, call,
                 response, last, safeFn, safeCall, chainVars,
                 bootVars>>
  /\ UNCHANGED inflight

\* a handler that calls the optional operation before its not-found check
InvokeGetUserCallsFirst ==
  /\ pc = "handler"
  /\ endpoint = "getUserEndpoint"
  /\ invoked' = invoked + 1
  /\ logged' = Append(logged, LogLine(input.id, options["method"], Undefined))
  /\ outcome' = GetUserHandlerStart(input.id)
  /\ exampleCalls' = exampleCalls + 1
  /\ pc' = PipelineBoundary(outcome')
  /\ steps' = Append(steps, "handler")
  /\ UNCHANGED <<request, endpoint, options, input, example, call, response,
                 last, safeFn, safeCall, chainVars,
                 bootVars>>
  /\ UNCHANGED inflight

\* getUserEndpoint.handler runs up to its throw or to its await, where
\* exampleWithRandomThrow has been called once
InvokeGetUser ==
  /\ pc = "handler"
  /\ endpoint = "getUserEndpoint"
  /\ invoked' = invoked + 1
  /\ logged' = Append(logged, LogLine(input.id, options["method"], Undefined))
  /\ outcome' = GetUserHandlerStart(input.id)
  /\ exampleCalls' = IF outcome' = Awaiting THEN exampleCalls + 1
                                       ELSE exampleCalls
  /\ pc' = PipelineBoundary(outcome')
  /\ steps' = Append(steps, "handler")
  /\ UNCHANGED <<request, endpoint, options, input, example, call, response,
                 last, safeFn, safeCall, chainVars,
                 bootVars>>
  /\ UNCHANGED inflight

\* exampleWithRandomThrow settles, safeAsync completes and the handler
\* resumes up to its return
ExampleSettles ==
  /\ pc = "awaiting"
  /\ \E fn \in ExampleOutcomes : example' = fn
  /\ call' = SafeAsync(example')
  /\ outcome' = GetUserHandlerResume(input.id, call')
  /\ pc' = PipelineBoundary(outcome')
  /\ UNCHANGED <<exampleCalls, request, endpoint, options, input, invoked,
                 logged,
                 response, steps, last, safeFn, safeCall, chainVars,
                 bootVars>>
  /\ UNCHANGED inflight

\* updateUserEndpoint.handler runs
InvokeUpdateUser ==
  /\ pc = "handler"
  /\ endpoint = "updateUserEndpoint"
  /\ invoked' = invoked + 1
  /\ logged' = Append(logged, LogLine(input.id, options["method"], input.name))
  /\ outcome' = UpdateUserHandler(input.id)
  /\ pc' = PipelineBoundary(outcome')
  /\ steps' = Append(steps, "handler")
  /\ UNCHANGED <<request, endpoint, options, input, example,
                 exampleCalls, call, response,
                 last, safeFn, safeCall, chainVars,
                 bootVars>>
  /\ UNCHANGED inflight

\* a pipeline that sends what the handler resolved with as it is
ValidateOutputPassThrough ==
  /\ pc = "output"
  /\ outcome' = outcome
  /\ pc' = "respond"
  /\ steps' = Append(steps, "output")
  /\ UNCHANGED <<request, endpoint, options, input, invoked, logged, example,
                 exampleCalls,
                 call, response, last, safeFn, safeCall, chainVars,
                 bootVars>>
  /\ UNCHANGED inflight

\* the value the handler resolved with is parsed by the output schema
ValidateOutput ==
  /\ pc = "output"
  /\ LET parsed == OutputSchema(endpoint, outcome.value)
     IN outcome' = IF parsed.ok THEN Returned(parsed.body) ELSE OutputError
  /\ pc' = "respond"
  /\ steps' = Append(steps, "output")
  /\ UNCHANGED <<request, endpoint, options, input, invoked, logged, example,
                 exampleCalls,
                 call, response, last, safeFn, safeCall, chainVars,
                 bootVars>>
  /\ UNCHANGED inflight

\* the result handler sends the response
SendResponse ==
  /\ pc = "respond"
  /\ response' = ResultHandler(outcome, IsProduction(env))
  /\ pc' = "done"
  /\ steps' = Append(steps, "response")
  /\ UNCHANGED <<request, endpoint, options, input, invoked, logged, example,
                 exampleCalls,
                 call, outcome, last, safeFn, safeCall, chainVars,
                 bootVars>>
  /\ UNCHANGED inflight

\* the request has ended: its context is discarded
Discard ==
  /\ pc = "done"
  /\ pc' = "idle"
  /\ request' = NoRequest
  /\ endpoint' = "none"
  /\ options' = NoOptions
  /\ input' = NoInput
  /\ invoked' = 0
  /\ logged' = <<>>
  /\ example' = NoFn
  /\ exampleCalls' = 0
  /\ call' = NoCall
  /\ outcome' = NoOutcome
  /\ response' = NoResponse
  /\ steps' = <<>>
  /\ last' = response.status
  /\ headers' = NoHeaders
  /\ UNCHANGED <<safeFn, safeCall, rateLimitStore, chainCount,
                 bootVars>>
  /\ UNCHANGED inflight

Next ==
  \/ Receive
  \/ Route
  \/ RunMiddleware
  \/ ValidateInput
  \/ InvokeGetUser
  \/ ExampleSettles
  \/ InvokeUpdateUser
  \/ ValidateOutput
  \/ SendResponse
  \/ Discard

Spec == Init /\ [][Next]_vars

(***************************************************************************)
(* Requests to protectedEndpoint, the documented endpoint behind the chain *)
(* requestIdMiddleware, authMiddleware, rateLimitMiddleware                *)
(***************************************************************************)
HeaderSets ==
  [authorization : {Undefined, Str(<<"Bearer ", "t">>), Str(<<"Basic ", "t">>)},
   xRequestId : {Undefined, Str(<<"r1">>)},
   xForwardedFor : {Undefined, Str(<<"c1">>)},
   remoteAddress : {Str(<<"c2">>)}]

\* what validateToken can give: a user id, or nothing
TokenOutcomes == {Num(7), Undefined}

Clients == {ClientIp(h) : h \in HeaderSets}

\* a request is handed to protectedEndpoint
ReceiveProtected ==
  /\ pc = "idle"
  /\ proc = "listening"
  /\ chainCount < MaxChainRequests
  /\ \E h \in HeaderSets : headers' = h
  /\ chainCount' = chainCount + 1
  /\ request' = [NoRequest EXCEPT !.method = "GET"]
  /\ endpoint' = "protectedEndpoint"
  /\ pc' = "chain"
  /\ UNCHANGED <<options, input, invoked, logged, example,
                 exampleCalls, call, outcome,
                 response, steps, last, safeFn, safeCall, rateLimitStore,
                 bootVars>>
  /\ UNCHANGED inflight

\* a chain that goes on to the next middleware after one has failed
RunChainMiddlewareNoAbort ==
  /\ pc = "chain"
  /\ LET name == ProtectedChain[Len(steps) + 1]
     IN \E userId \in TokenOutcomes, expired \in BOOLEAN :
          LET r == MiddlewareResult(name, headers, rateLimitStore, userId,
                                    expired)
          IN /\ steps' = Append(steps, name)
             /\ rateLimitStore' = r.store
             /\ options' = r.contribution @@ options
             /\ outcome' = IF r.ok THEN outcome ELSE r.error
             /\ pc' = IF Len(steps') = Len(ProtectedChain)
                        THEN "input" ELSE "chain"
  /\ UNCHANGED <<request, endpoint, input, invoked, logged, example,
                 exampleCalls, call,
                 response, last, safeFn, safeCall, headers, chainCount,
                 bootVars>>
  /\ UNCHANGED inflight

\* the next middleware of the chain runs: its contribution is merged into
\* the options, its failure ends the chain
RunChainMiddleware ==
  /\ pc = "chain"
  /\ LET name == ProtectedChain[Len(steps) + 1]
     IN \E userId \in TokenOutcomes, expired \in BOOLEAN :
          LET r == MiddlewareResult(name, headers, rateLimitStore, userId,
                                    expired)
          IN /\ steps' = Append(steps, name)
             /\ rateLimitStore' = r.store
             /\ IF r.ok
                  THEN /\ options' = r.contribution @@ options
                       /\ outcome' = outcome
                       /\ pc' = IF Len(steps') = Len(ProtectedChain)
                                  THEN "input" ELSE "chain"
                  ELSE /\ options' = options
                       /\ outcome' = r.error
                       /\ pc' = "respond"
  /\ UNCHANGED <<request, endpoint, input, invoked, logged, example,
                 exampleCalls, call,
                 response, last, safeFn, safeCall, headers, chainCount,
                 bootVars>>
  /\ UNCHANGED inflight

\* protectedEndpoint.input is z.object({}): nothing to validate
ValidateProtectedInput ==
  /\ pc = "input"
  /\ endpoint = "protectedEndpoint"
  /\ pc' = "handler"
  /\ steps' = Append(steps, "input")
  /\ UNCHANGED <<request, endpoint, options, input, invoked, logged, example,
                 exampleCalls,
                 call, outcome, response, last, safeFn, safeCall, chainVars,
                 bootVars>>
  /\ UNCHANGED inflight

InvokeProtected ==
  /\ pc = "handler"
  /\ endpoint = "protectedEndpoint"
  /\ invoked' = invoked + 1
  /\ outcome' = ProtectedHandler(options)
  /\ pc' = PipelineBoundary(outcome')
  /\ steps' = Append(steps, "handler")
  /\ UNCHANGED <<request, endpoint, options, input, logged, example,
                 exampleCalls, call,
                 response, last, safeFn, safeCall, chainVars,
                 bootVars>>
  /\ UNCHANGED inflight

\* requests to the routed endpoints sent along with those to
\* protectedEndpoint
UserRequests ==
  {r \in Requests :
     /\ r.path \in {<<V1, USER, <<"5">>>>, <<V1, USER, <<"1", "5", "0">>>>}
     /\ r.method \in {"GET", "POST"}
     /\ r.name \in {Undefined, Str(<<"J", "o", "h", "n">>)}}

ReceiveUser == ReceiveFrom(UserRequests)

NextChain ==
  \/ ReceiveProtected
  \/ RunChainMiddleware
  \/ ValidateProtectedInput
  \/ InvokeProtected
  \/ ReceiveUser
  \/ Route
  \/ RunMiddleware
  \/ ValidateInput
  \/ InvokeGetUser
  \/ ExampleSettles
  \/ InvokeUpdateUser
  \/ ValidateOutput
  \/ SendResponse
  \/ Discard

\* the store is empty, or every client is one request away from the limit
InitChain ==
  /\ InitRequest
  /\ rateLimitStore \in
       {[i \in {} |-> 0], [i \in Clients |-> MaxRequests - 1]}
  /\ InitServing

SpecChain == InitChain /\ [][NextChain]_vars

(***************************************************************************)
(* Start of the process: entry point, configuration modules, bootstrap,    *)
(* generators.  A throw while a dynamically imported module is evaluated   *)
(* rejects the import; nothing handles the rejection, which ends the       *)
(* process with exit code 1.                                               *)
(***************************************************************************)
NodeEnvs ==
  {Undefined, Str(<<"production">>), Str(<<"development">>),
   Str(<<"test">>)}

PortTexts == {<<>>, <<"8", "0">>, <<"a", "b", "c">>}

FlagTexts == {<<"true">>, <<"false">>, <<>>}

\* the environments a process of the model starts with
Envs ==
  {[k \in EnvNames |->
      CASE k = "NODE_ENV" -> r.nodeEnv
        [] k = "PORT" -> r.port
        [] k = "LOG_LEVEL" -> r.logLevel
        [] k = "GENERATE_CLIENT" -> r.client
        [] k = "GENERATE_API_DOCS" -> r.docs
        [] k = "API_TITLE" -> r.title
        [] OTHER -> Undefined] :
     r \in [nodeEnv : NodeEnvs,
            port : {Undefined} \cup {Str(t) : t \in PortTexts},
            logLevel : {Undefined, Str(<<"info">>)},
            client : {Undefined} \cup {Str(t) : t \in FlagTexts},
            docs : {Undefined} \cup {Str(t) : t \in FlagTexts},
            title : {Undefined, Str(<<"shop">>)}]}

InitBoot ==
  /\ InitRequest
  /\ rateLimitStore = [i \in {} |-> 0]
  /\ env \in Envs
  /\ proc = "start"
  /\ loaded = "none"
  /\ envConfig = NoConfig
  /\ currentEnvironment = Undefined
  /\ started = {}
  /\ files = NoFiles
  /\ exitCode = 0
  /\ server = "none"
  /\ writable \in SUBSET {ClientFile, DocsFile}

\* index.ts: index.prod when NODE_ENV is 'production', else index.dev
EntryPoint ==
  /\ proc = "start"
  /\ loaded' = IF IsProduction(env) THEN "index.prod" ELSE "index.dev"
  /\ proc' = "loading"
  /\ UNCHANGED <<pipelineVars, safeFn, safeCall, chainVars, env, envConfig,
                 currentEnvironment, started, files, exitCode, server,
                 writable>>
  /\ UNCHANGED inflight

\* the process ends with the given code; the request in flight ends with it
Exit(code) ==
  /\ proc' = "exited"
  /\ exitCode' = code
  /\ pc' = "idle"
  /\ request' = NoRequest
  /\ endpoint' = "none"
  /\ options' = NoOptions
  /\ input' = NoInput
  /\ invoked' = 0
  /\ logged' = <<>>
  /\ example' = NoFn
  /\ exampleCalls' = 0
  /\ call' = NoCall
  /\ outcome' = NoOutcome
  /\ response' = NoResponse
  /\ steps' = <<>>
  /\ headers' = NoHeaders
  /\ UNCHANGED <<last, safeFn, safeCall, rateLimitStore, chainCount, env,
                 loaded, server, writable>>
  /\ UNCHANGED inflight

\* configuration modules whose failed parse is not an error
LoadConfigsLenient ==
  /\ proc = "loading"
  /\ envConfig' = EnvFileSchema(env).value
  /\ currentEnvironment' = Environment(env["NODE_ENV"]).value
  /\ proc' = "bootstrap"
  /\ UNCHANGED <<pipelineVars, safeFn, safeCall, chainVars, env, loaded,
                 started, files, exitCode, server, writable>>
  /\ UNCHANGED inflight

\* the bootstrap imports the configuration modules: env.config.ts parses
\* process.env, app.config.ts parses NODE_ENV, in either order; the first
\* parse that throws ends the evaluation
LoadConfigs ==
  /\ proc = "loading"
  /\ LET parsed == EnvFileSchema(env)
         environment == Environment(env["NODE_ENV"])
     IN IF parsed.ok /\ environment.ok
          THEN /\ envConfig' = parsed.value
               /\ currentEnvironment' = environment.value
               /\ proc' = "bootstrap"
               /\ UNCHANGED <<pipelineVars, safeFn, safeCall, chainVars, env,
                              loaded, exitCode, server, writable>>
          ELSE /\ \E envFirst \in BOOLEAN :
                    /\ envConfig' = IF envFirst /\ parsed.ok
                                      THEN parsed.value ELSE NoConfig
                    /\ currentEnvironment' =
                         IF ~envFirst /\ environment.ok
                           THEN environment.value ELSE Undefined
               /\ Exit(1)
  /\ UNCHANGED <<started, files>>
  /\ UNCHANGED inflight

\* the option that switches a generator on
Flag(g) ==
  IF g = "clientGenerator" THEN "GENERATE_CLIENT" ELSE "GENERATE_API_DOCS"

\* a bootstrap that creates the server once the generators have written
BootstrapAfterGenerators ==
  /\ proc = "bootstrap"
  /\ started' =
       {g \in Generators :
          /\ currentEnvironment = Str(<<"development">>)
          /\ Truthy(Get(envConfig, Flag(g)))}
  /\ server' = IF started' = {} \/ {ClientFile, DocsFile} \subseteq writable
                 THEN "created" ELSE "none"
  /\ proc' = "listening"
  /\ UNCHANGED <<pipelineVars, safeFn, safeCall, chainVars, env, loaded,
                 envConfig, currentEnvironment, files, exitCode, writable>>
  /\ UNCHANGED inflight

\* a bootstrap that looks at the flags alone
BootstrapAnyEnvironment ==
  /\ proc = "bootstrap"
  /\ started' = {g \in Generators : Truthy(Get(envConfig, Flag(g)))}
  /\ server' = "created"
  /\ proc' = "listening"
  /\ UNCHANGED <<pipelineVars, safeFn, safeCall, chainVars, env, loaded,
                 envConfig, currentEnvironment, files, exitCode, writable>>
  /\ UNCHANGED inflight

\* the bootstrap module: the imports of the generators are initiated when
\* isDevEnvironment and their flag hold, then createServer is called
Bootstrap ==
  /\ proc = "bootstrap"
  /\ started' =
       {g \in Generators :
          /\ currentEnvironment = Str(<<"development">>)
          /\ Truthy(Get(envConfig, Flag(g)))}
  /\ server' = "created"
  /\ proc' = "listening"
  /\ UNCHANGED <<pipelineVars, safeFn, safeCall, chainVars, env, loaded,
                 envConfig, currentEnvironment, files, exitCode, writable>>
  /\ UNCHANGED inflight

\* clientGenerator: the Integration of the routing is printed and written;
\* writeFileSync throws when the file cannot be written, which rejects the
\* import
RunClientGenerator ==
  /\ proc = "listening"
  /\ "clientGenerator" \in started
  /\ ClientFile \notin DOMAIN files
  /\ IF ClientFile \in writable
       THEN /\ files' = [f \in DOMAIN files \cup {ClientFile} |->
                           IF f = ClientFile
                             THEN ClientSource(Integration(Routing))
                             ELSE files[f]]
            /\ UNCHANGED <<pipelineVars, safeFn, safeCall, chainVars, env,
                           proc, loaded, exitCode, server, writable>>
       ELSE files' = files /\ Exit(1)
  /\ UNCHANGED <<envConfig, currentEnvironment, started>>
  /\ UNCHANGED inflight

\* a documentation pass that runs the handlers of the endpoints it documents
RunDocsGeneratorInvoking ==
  /\ proc = "listening"
  /\ "docsGenerator" \in started
  /\ DocsFile \notin DOMAIN files
  /\ files' = [f \in DOMAIN files \cup {DocsFile} |->
                 IF f = DocsFile THEN Documentation(Routing, envConfig)
                                 ELSE files[f]]
  /\ invoked' = invoked + Cardinality(RoutedPairs(Routing))
  /\ UNCHANGED <<pc, request, endpoint, options, input, logged, example,
                 exampleCalls, call,
                 outcome, response, steps, last, safeFn, safeCall, chainVars,
                 env, proc, loaded, exitCode, server, envConfig,
                 currentEnvironment, started, writable>>
  /\ UNCHANGED inflight

\* docsGenerator: the Documentation of the routing is written as YAML; a
\* Documentation or a writeFileSync that throws rejects the import
RunDocsGenerator ==
  /\ proc = "listening"
  /\ "docsGenerator" \in started
  /\ DocsFile \notin DOMAIN files
  /\ LET document == Documentation(Routing, envConfig)
     IN IF document.ok /\ DocsFile \in writable
          THEN /\ files' = [f \in DOMAIN files \cup {DocsFile} |->
                              IF f = DocsFile THEN document ELSE files[f]]
               /\ UNCHANGED <<pipelineVars, safeFn, safeCall, chainVars, env,
                              proc, loaded, exitCode, server, writable>>
          ELSE files' = files /\ Exit(1)
  /\ UNCHANGED <<envConfig, currentEnvironment, started>>
  /\ UNCHANGED inflight

\* requests sent to the server while it starts and generates
BootRequests ==
  {r \in Requests : r.method = "GET" /\ r.path = <<V1, USER, <<"5">>>>}

ReceiveBoot == ReceiveFrom(BootRequests)

NextBoot ==
  \/ EntryPoint
  \/ LoadConfigs
  \/ Bootstrap
  \/ RunClientGenerator
  \/ RunDocsGenerator
  \/ ReceiveBoot
  \/ Route
  \/ RunMiddleware
  \/ ValidateInput
  \/ InvokeGetUser
  \/ ExampleSettles
  \/ ValidateOutput
  \/ SendResponse
  \/ Discard

SpecBoot == InitBoot /\ [][NextBoot]_vars

(***************************************************************************)
(* The end of the pipeline applied to what a handler can do: resolve with  *)
(* a value, throw an HTTP error, throw anything else                       *)
(***************************************************************************)
DateValue == [t |-> "date", s |-> <<"2024-01-01T00:00:00.000Z">>, n |-> 0]

\* values a handler resolves with
HandlerValues ==
  {NoBody}
    \cup {[f \in {"demoData"} |-> v] : v \in {Str(<<"o", "k">>), Num(1)}}
    \cup {[f \in {"demoData", "password"} |-> Str(<<"o", "k">>)]}
    \cup {[f \in {"name", "createdAt"} |->
             IF f = "name" THEN Str(<<"J", "o", "h", "n">>) ELSE v] :
            v \in {DateValue, Str(<<"t", "o", "d", "a", "y">>), Undefined}}

\* what a handler does
HandlerResults ==
  {Returned(v) : v \in HandlerValues}
    \cup {HttpError(404, "User not found"),
          HttpError(500, "Not implemented yet!")}
    \cup {Fault(ErrorObject(m)) : m \in SeqsUpTo(IdChars, 0, MaxTextLen)}

\* a handler of one of the endpoints has just done one of these things, on
\* the development or on the production server
InitResult ==
  /\ \E ep \in {"getUserEndpoint", "updateUserEndpoint"}, o \in HandlerResults :
       /\ endpoint = ep
       /\ outcome = o
       /\ pc = PipelineBoundary(o)
  /\ request = NoRequest
  /\ options = NoOptions
  /\ input = NoInput
  /\ invoked = 1
  /\ logged = <<>>
  /\ example = NoFn
  /\ exampleCalls = 0
  /\ call = NoCall
  /\ response = NoResponse
  /\ steps = <<"handler">>
  /\ last = 0
  /\ safeFn = NoFn
  /\ safeCall = NoCall
  /\ headers = NoHeaders
  /\ chainCount = 0
  /\ inflight = NoneInFlight
  /\ rateLimitStore = [i \in {} |-> 0]
  /\ InitServing \/ InitServingProduction

NextResult ==
  \/ ValidateOutput
  \/ SendResponse

SpecResult == InitResult /\ [][NextResult]_vars

(***************************************************************************)
(* Direct calls of the safe-execution helpers                              *)
(***************************************************************************)
Texts == SeqsUpTo(IdChars, 0, MaxTextLen)

SafeValues == {Undefined, Num(0), Num(1)} \cup {Str(s) : s \in Texts}

\* functions given to safe: they return or throw
SyncFns ==
  {Returns(v) : v \in SafeValues} \cup {Throws(ErrorObject(m)) : m \in Texts}

\* functions given to safeAsync: they can also give a promise that rejects
AsyncFns == SyncFns \cup {Rejects(ErrorObject(m)) : m \in Texts}

CallSafe ==
  /\ \E fn \in SyncFns : safeFn' = fn
  /\ safeCall' = Safe(safeFn')
  /\ UNCHANGED <<pipelineVars, chainVars, bootVars>>
  /\ UNCHANGED inflight

CallSafeAsync ==
  /\ \E fn \in AsyncFns : safeFn' = fn
  /\ safeCall' = SafeAsync(safeFn')
  /\ UNCHANGED <<pipelineVars, chainVars, bootVars>>
  /\ UNCHANGED inflight

NextSafe ==
  \/ CallSafe
  \/ CallSafeAsync

SpecSafe == Init /\ [][NextSafe]_vars

(***************************************************************************)
(* Several requests in flight.  Each request the server accepts is worked  *)
(* on in a slot of its own; the steps of different slots interleave at the *)
(* suspension points of the pipeline: the middleware, the parse of the     *)
(* input, the handler's await, the result handler.                         *)
(***************************************************************************)
ConcurrentRequests ==
  {r \in Requests :
     /\ r.path \in {<<V1, USER, <<"5">>>>, <<V1, USER, <<"1", "5", "0">>>>}
     /\ r.method \in {"GET", "POST"}
     /\ r.method = "POST" => r.name = Str(<<"J", "o", "h", "n">>)}

\* every request of the server reads and writes one context
HandlerArgumentsShared(i) ==
  LET built == {j \in Slots : inflight[j].options # NoOptions}
      j == CHOOSE k \in built : \A l \in built : l <= k
  IN [input |-> inflight[j].input, options |-> inflight[j].options]

\* what the handler of the request in slot i is called with: the input
\* parsed from its request and the options its middleware chain built
HandlerArguments(i) ==
  [input |-> inflight[i].input, options |-> inflight[i].options]

\* a request arrives while others are in flight and is routed
Accept(i) ==
  /\ proc = "listening"
  /\ inflight[i].pc = "idle"
  /\ \E r \in ConcurrentRequests :
       LET ep == Resolve(r.path, r.method)
       IN inflight' =
            [inflight EXCEPT ![i] =
               [IdleSlot EXCEPT
                  !.request = r,
                  !.endpoint = ep,
                  !.outcome = CASE ep = "notFound" -> RouteNotFound
                                [] ep = "methodNotAllowed" -> MethodNotAllowed
                                [] OTHER -> NoOutcome,
                  !.pc = IF ep \in {"notFound", "methodNotAllowed"}
                           THEN "respond" ELSE "middleware"]]
  /\ UNCHANGED <<pipelineVars, safeFn, safeCall, chainVars, bootVars>>

\* methodProviderMiddleware of the request in slot i resolves
SlotMiddleware(i) ==
  /\ inflight[i].pc = "middleware"
  /\ inflight' =
       [inflight EXCEPT
          ![i].options = MethodProviderMiddleware(inflight[i].request) @@ @,
          ![i].pc = "input"]
  /\ UNCHANGED <<pipelineVars, safeFn, safeCall, chainVars, bootVars>>

\* the input of the request in slot i is parsed
SlotValidateInput(i) ==
  /\ inflight[i].pc = "input"
  /\ LET q == inflight[i]
         parsed == InputSchema(q.endpoint, RawInput(q.request))
     IN inflight' =
          IF parsed.ok
            THEN [inflight EXCEPT ![i].input = parsed.value,
                                  ![i].pc = "handler"]
            ELSE [inflight EXCEPT ![i].outcome = InputError(parsed.issues),
                                  ![i].pc = "respond"]
  /\ UNCHANGED <<pipelineVars, safeFn, safeCall, chainVars, bootVars>>

\* the handler of the request in slot i runs up to its throw or its await
SlotInvoke(i) ==
  /\ inflight[i].pc = "handler"
  /\ LET q == inflight[i]
         args == HandlerArguments(i)
         get == q.endpoint = "getUserEndpoint"
         o == IF get THEN GetUserHandlerStart(args.input.id)
                     ELSE UpdateUserHandler(args.input.id)
     IN inflight' =
          [inflight EXCEPT
             ![i].logged =
                Append(@, LogLine(args.input.id, args.options["method"],
                                  IF get THEN Undefined ELSE args.input.name)),
             ![i].outcome = o,
             ![i].pc = PipelineBoundary(o)]
  /\ UNCHANGED <<pipelineVars, safeFn, safeCall, chainVars, bootVars>>

\* exampleWithRandomThrow of the request in slot i settles: the handler
\* resumes and returns, the output is validated
SlotSettle(i) ==
  /\ inflight[i].pc = "awaiting"
  /\ \E fn \in ExampleOutcomes :
       LET q == inflight[i]
           args == HandlerArguments(i)
           o == GetUserHandlerResume(args.input.id, SafeAsync(fn))
           parsed == OutputSchema(q.endpoint, o.value)
       IN inflight' =
            [inflight EXCEPT
               ![i].outcome = IF o.kind # "return" THEN o
                              ELSE IF parsed.ok THEN Returned(parsed.body)
                              ELSE OutputError,
               ![i].pc = "respond"]
  /\ UNCHANGED <<pipelineVars, safeFn, safeCall, chainVars, bootVars>>

\* the result handler answers the request in slot i
SlotRespond(i) ==
  /\ inflight[i].pc = "respond"
  /\ inflight' =
       [inflight EXCEPT
          ![i].response = ResultHandler(inflight[i].outcome, IsProduction(env)),
          ![i].pc = "done"]
  /\ UNCHANGED <<pipelineVars, safeFn, safeCall, chainVars, bootVars>>

\* the request in slot i has ended: its context is discarded
SlotRelease(i) ==
  /\ inflight[i].pc = "done"
  /\ inflight' = [inflight EXCEPT ![i] = IdleSlot]
  /\ UNCHANGED <<pipelineVars, safeFn, safeCall, chainVars, bootVars>>

NextConcurrent ==
  \E i \in Slots :
    \/ Accept(i)
    \/ SlotMiddleware(i)
    \/ SlotValidateInput(i)
    \/ SlotInvoke(i)
    \/ SlotSettle(i)
    \/ SlotRespond(i)
    \/ SlotRelease(i)

SpecConcurrent == Init /\ [][NextConcurrent]_vars

(***************************************************************************)
(* Properties                                                              *)
(***************************************************************************)
\* the request was resolved to one of the two endpoints
AtEndpoint == endpoint \in {"getUserEndpoint", "updateUserEndpoint"}

\* the raw value of the id path parameter of the request in flight
RawId == request.path[3]

\* every character is a digit and there is at least one
OnlyDigits(s) == s # <<>> /\ \A i \in 1..Len(s) : s[i] \in Digits

\* the number a string of digits denotes in base 10
RECURSIVE DecimalValue(_)
DecimalValue(s) ==
  IF s = <<>> THEN 0
  ELSE 10 * DecimalValue(SubSeq(s, 1, Len(s) - 1)) + DigitVal(s[Len(s)])

\* s, surrounding blanks apart, is a decimal numeral (with an optional
\* minus sign) and n is the integer it denotes
Denotes(s, n) ==
  LET t == Trim(s)
  IN \/ OnlyDigits(t) /\ n = DecimalValue(t)
     \/ /\ t # <<>>
        /\ Head(t) = "-"
        /\ OnlyDigits(Tail(t))
        /\ n = 0 - DecimalValue(Tail(t))

\* C1: a request to /v1/user/:id whose id is not made only of decimal
\* digits never reaches a handler and is answered with a 400 validation
\* error.
C1_NonDigitIdRejected ==
  (AtEndpoint /\ ~OnlyDigits(RawId)) =>
     /\ invoked = 0
     /\ pc = "done" => response.status = 400 /\ response.cause = "ValidationError"

\* C2: the id a handler sees is the base-10 integer that the id path
\* string denotes, never another number.
C2_HandlerSeesDenotedInteger ==
  invoked > 0 => input.id.t = "number" /\ Denotes(RawId, input.id.n)

C4_NotFoundIffAbove100 ==
  (pc = "done" /\ endpoint = "getUserEndpoint" /\ invoked > 0) =>
     /\ response.status = 404 <=> (input.id.t = "number" /\ input.id.n > 100)
     /\ response.status = 404 => response.message = "User not found"
     /\ RawId \in {<<"1", "0", "1">>, <<"1", "5", "0">>} => response.status = 404
     /\ RawId \in {<<"1", "0", "0">>, <<"0">>} => response.status # 404

C4_Witness ==
  /\ pc = "done"
  /\ request.method = "GET"
  /\ request.path = <<V1, USER, <<"1", "0", "1">>>>
  /\ response.status = 404
  /\ response.message = "User not found"

C10_NeverRethrows ==
  safeFn.kind # "none" =>
     /\ safeCall.completion = "normal"
     /\ safeCall.thrown = Undefined

C10_Witness ==
  /\ safeFn.kind \in {"throw", "reject"}
  /\ safeCall.completion = "normal"
  /\ ~safeCall.ret.ok

\* C11: when the optional operation of the GET handler fails, the response
\* is still the 200 success "Querying User <id> failed safely: <error>",
\* never an error.
C11_FailedSafely ==
  ( /\ pc = "done"
    /\ endpoint = "getUserEndpoint"
    /\ invoked > 0
    /\ input.id.t = "number"
    /\ input.id.n <= 100
    /\ example.kind # "return" ) =>
     /\ response.kind = "success"
     /\ response.status = 200
     /\ DOMAIN response.body = {"demoData"}
     /\ response.body["demoData"] =
          Str(<<"Querying User ">> \o TemplateString(input.id)
                \o <<" failed safely: ">> \o example.val.s)

C11_Witness ==
  /\ pc = "done"
  /\ request.method = "GET"
  /\ request.path = <<V1, USER, <<"1", "5">>>>
  /\ example.kind = "reject"
  /\ response.status = 200
  /\ response.body["demoData"].s =
       <<"Querying User ", "1", "5", " failed safely: ", "Random error">>

\* a GET whose id is a numeral of at most 100
ValidGet ==
  /\ endpoint = "getUserEndpoint"
  /\ OnlyDigits(RawId)
  /\ DecimalValue(RawId) <= 100

RECURSIVE InOrder(_, _)
InOrder(s, t) ==
  IF s = <<>> THEN TRUE
  ELSE IF t = <<>> THEN FALSE
  ELSE IF Head(s) = Head(t) THEN InOrder(Tail(s), Tail(t))
  ELSE InOrder(s, Tail(t))

Took(step) == \E i \in 1..Len(steps) : steps[i] = step

Range(f) == {f[i] : i \in DOMAIN f}

\* the middleware of the chain of protectedEndpoint that ran, in order
ChainSteps == SelectSeq(steps, LAMBDA x : x \in Range(ProtectedChain))

ChainFailed ==
  /\ endpoint = "protectedEndpoint"
  /\ outcome.kind \in {"httpError", "inputError"}

\* C16: when a middleware of the chain of protectedEndpoint fails, the
\* chain stops there (what ran is a prefix of the chain, ending with the
\* one that failed), the handler is not invoked, the pipeline goes straight
\* to the response, and the response is an error with the status and
\* message the middleware signalled (401 from authMiddleware, 429 from
\* rateLimitMiddleware, 400 for a header its input schema rejects); a
\* handler that is invoked has the contributions of the whole chain.
C16_ChainAborts ==
  /\ ChainFailed =>
       /\ pc \in {"respond", "done"}
       /\ invoked = 0
       /\ ~Took("handler")
       /\ ChainSteps # <<>>
       /\ ChainSteps = SubSeq(ProtectedChain, 1, Len(ChainSteps))
       /\ pc = "done" =>
            /\ response.kind = "error"
            /\ steps = Append(ChainSteps, "response")
            /\ IF outcome.kind = "inputError" THEN response.status = 400
               ELSE /\ response.status = outcome.status
                    /\ response.message = outcome.message
                    /\ response.status =
                         (IF ChainSteps[Len(ChainSteps)] = "authMiddleware"
                            THEN 401 ELSE 429)
  /\ (endpoint = "protectedEndpoint" /\ invoked > 0) =>
       /\ ChainSteps = ProtectedChain
       /\ DOMAIN options =
            {"requestId", "userId", "isAuthenticated", "requestCount",
             "clientIp"}

C16_Witness ==
  /\ pc = "done"
  /\ endpoint = "protectedEndpoint"
  /\ headers.authorization = Undefined
  /\ steps = <<"requestIdMiddleware", "authMiddleware", "response">>
  /\ invoked = 0
  /\ response.status = 401
  /\ response.message = "Authorization header required"

\* what each middleware of the chain contributes
ContributionKeys(name) ==
  CASE name = "requestIdMiddleware" -> {"requestId"}
    [] name = "authMiddleware" -> {"userId", "isAuthenticated"}
    [] name = "rateLimitMiddleware" -> {"requestCount", "clientIp"}

NumericText(s) ==
  \/ Trim(s) = <<>>
  \/ \A i \in 1..Len(Trim(s)) : Trim(s)[i] \in Digits

\* every present option of the environment can be coerced to its type
EnvValid ==
  /\ env["PORT"] # Undefined => NumericText(env["PORT"].s)
  /\ env["LOG_LEVEL"] \in
       {Undefined, Str(<<"silent">>), Str(<<"warn">>), Str(<<"debug">>)}

DeclaredDefault(k) ==
  CASE k = "PORT" -> Num(8090)
    [] k = "LOG_LEVEL" -> Str(<<"debug">>)
    [] k = "API_VERSION" -> Str(<<"0.0.1">>)
    [] k = "API_TITLE" -> Str(<<"my-api">>)
    [] k = "API_SERVER_URL" -> Str(<<"http://localhost:8090/v1">>)
    [] OTHER -> Bool(TRUE)

\* C13: a configuration object, once produced, has every recognised option,
\* the absent ones at their declared default (PORT 8090, the toggles true,
\* LOG_LEVEL debug, API_VERSION 0.0.1, API_TITLE my-api, API_SERVER_URL
\* http://localhost:8090/v1) and PORT=80 as the number 80; when a present
\* value cannot be coerced (PORT=abc, LOG_LEVEL=info) no configuration
\* object is ever produced and loading ends the process with an error.
C13_AllOrNothing ==
  /\ envConfig # NoConfig =>
       /\ EnvValid
       /\ DOMAIN envConfig = OptionNames
       /\ \A k \in OptionNames :
            env[k] = Undefined => envConfig[k] = DeclaredDefault(k)
       /\ env["PORT"] = Str(<<"8", "0">>) => envConfig["PORT"] = Num(80)
  /\ ~EnvValid =>
       /\ envConfig = NoConfig
       /\ proc \in {"start", "loading", "exited"}
       /\ proc = "exited" => exitCode # 0
  /\ proc \in {"bootstrap", "listening"} => envConfig # NoConfig

C13_Witness ==
  /\ proc = "exited"
  /\ env["PORT"] = Str(<<"a", "b", "c">>)
  /\ env["LOG_LEVEL"] = Undefined
  /\ env["NODE_ENV"] = Str(<<"development">>)
  /\ envConfig = NoConfig
  /\ exitCode = 1

\* the parse of the environment fails: an option cannot be coerced, or
\* NODE_ENV is neither production nor development
ParseFails ==
  \/ ~EnvValid
  \/ env["NODE_ENV"] \notin {Str(<<"production">>), Str(<<"development">>)}

\* C14: when the parse of the environment fails the process never gets past
\* the loading of the configuration: createServer is not called, no
\* generator is started, no request is received or answered, and once the
\* configuration has been loaded the process has exited with a non-zero
\* code.
C14_NoServerAfterFailedParse ==
  ParseFails =>
    /\ server = "none"
    /\ started = {}
    /\ files = NoFiles
    /\ pc = "idle"
    /\ last = 0
    /\ proc \in {"start", "loading", "exited"}
    /\ proc = "exited" => exitCode # 0

C14_Witness ==
  /\ proc = "exited"
  /\ env["LOG_LEVEL"] = Str(<<"info">>)
  /\ env["NODE_ENV"] = Str(<<"production">>)
  /\ exitCode = 1
  /\ server = "none"

ServedRequests ==
  {q \in Paths \X Methods :
     Resolve(q[1], q[2]) \notin {"notFound", "methodNotAllowed"}}

\* d documents the operations the server serves: a request is served by an
\* endpoint exactly when d has an operation for its path and method, which
\* then names that endpoint and carries its declared examples
DocumentsServed(d) ==
  /\ d.ok
  /\ \A q \in Paths \X Methods :
       LET ops == {o \in d.operations :
                     Matches(o.path, q[1]) /\ o.method = ToLowerCase(q[2])}
       IN IF q \in ServedRequests
            THEN /\ Cardinality(ops) = 1
                 /\ \A o \in ops :
                      /\ o.endpoint = Resolve(q[1], q[2])
                      /\ o.inputExamples =
                           EndpointDeclaration(o.endpoint).inputExamples
                      /\ o.outputExamples =
                           EndpointDeclaration(o.endpoint).outputExamples
            ELSE ops = {}
  /\ {<<o.path, o.method>> : o \in d.operations} =
       {<<<<Literal(V1), Literal(USER), Param(<<"i", "d">>)>>, m>> :
          m \in {"get", "post"}}
  /\ Cardinality(d.operations) = 2

\* the documents a documentation pass of the model can write
Documents ==
  {Documentation(Routing, EnvFileSchema(e).value) : e \in Envs}

ServedDocuments == {d \in Documents : DocumentsServed(d)}

C20_MissingExampleNoAbort ==
  /\ EndpointDeclaration("updateUserEndpoint").outputExamples = {}
  /\ ("docsGenerator" \in started /\ writable = {ClientFile, DocsFile}) =>
       proc = "listening"
  /\ DocsFile \in DOMAIN files =>
       /\ {o.endpoint : o \in files[DocsFile].operations} =
            {"getUserEndpoint", "updateUserEndpoint"}
       /\ \A o \in files[DocsFile].operations :
            o.endpoint = "updateUserEndpoint" => o.outputExamples = {}

C20_Witness ==
  /\ proc = "listening"
  /\ DocsFile \in DOMAIN files
  /\ \E o \in files[DocsFile].operations :
       o.endpoint = "updateUserEndpoint" /\ o.outputExamples = {}
  /\ \E o \in files[DocsFile].operations : o.endpoint = "getUserEndpoint"


SatisfiesOutput(ep, b) ==
  IF ep = "getUserEndpoint"
    THEN DOMAIN b = {"demoData"} /\ IsString(b["demoData"])
    ELSE /\ DOMAIN b = {"name", "createdAt"}
         /\ IsString(b["name"])
         /\ IsString(b["createdAt"])

\* C22: a value that fails the output schema of its endpoint is answered
\* with a 500 error without body; every success body that is sent has the
\* fields and types of the output schema, so a value that does not satisfy
\* it is never sent as a success.
C22_OutputMismatchIs500 ==
  /\ (pc = "done" /\ outcome.kind = "outputError") =>
       /\ response.kind = "error"
       /\ response.status = 500
       /\ response.body = NoBody
  /\ (pc = "done" /\ response.kind = "success") =>
       SatisfiesOutput(endpoint, response.body)
  /\ (pc \in {"respond", "done"} /\ Took("output")) =>
       \/ outcome.kind = "outputError"
       \/ outcome.kind = "return" /\ SatisfiesOutput(endpoint, outcome.value)

C22_Witness ==
  /\ pc = "done"
  /\ endpoint = "getUserEndpoint"
  /\ Took("output")
  /\ outcome.kind = "outputError"
  /\ response.status = 500


C29_CheckBeforeOperation ==
  /\ exampleCalls \in {0, 1}
  /\ endpoint # "getUserEndpoint" => exampleCalls = 0
  /\ (endpoint = "getUserEndpoint" /\ invoked = 1) =>
       /\ GreaterThan(input.id, NotFoundThreshold) =>
            /\ exampleCalls = 0
            /\ example = NoFn
            /\ pc # "awaiting"
       /\ (input.id.t = "number" /\ input.id.n <= NotFoundThreshold) =>
            /\ exampleCalls = 1
            /\ pc = "awaiting" => example = NoFn /\ response = NoResponse
            /\ response # NoResponse =>
                 /\ example \in ExampleOutcomes
                 /\ call = SafeAsync(example)

C29_Witness ==
  /\ pc = "done"
  /\ endpoint = "getUserEndpoint"
  /\ input.id = Num(15)
  /\ exampleCalls = 1
  /\ example \in ExampleOutcomes
  /\ response.status = 200

\* the configuration modules were evaluated without a throw
ConfigsLoaded == envConfig # NoConfig /\ currentEnvironment # Undefined

\* C25: once the bootstrap has run, the client generator was started iff
\* the environment is development and GENERATE_CLIENT is true, the
\* documentation generator iff it is development and GENERATE_API_DOCS is
\* true; in production none was started; the server was created in every
\* case, and nothing is started before the bootstrap runs.
C25_GeneratorsIffDevAndFlag ==
  /\ (proc \in {"start", "loading", "bootstrap"}) =>
        started = {} /\ server = "none"
  /\ (proc \in {"listening", "exited"} /\ ConfigsLoaded) =>
       /\ server = "created"
       /\ "clientGenerator" \in started <=>
            /\ currentEnvironment = Str(<<"development">>)
            /\ envConfig["GENERATE_CLIENT"] = Bool(TRUE)
       /\ "docsGenerator" \in started <=>
            /\ currentEnvironment = Str(<<"development">>)
            /\ envConfig["GENERATE_API_DOCS"] = Bool(TRUE)
       /\ currentEnvironment = Str(<<"production">>) => started = {}

C25_Witness ==
  /\ proc = "listening"
  /\ server = "created"
  /\ currentEnvironment = Str(<<"production">>)
  /\ envConfig["GENERATE_CLIENT"] = Bool(TRUE)
  /\ envConfig["GENERATE_API_DOCS"] = Bool(TRUE)
  /\ started = {}

\* C27: the entry point loads index.prod when NODE_ENV is "production" and
\* index.dev in every other case; with a NODE_ENV that is unset or neither
\* "production" nor "development" the environment parse fails and no server
\* is created; a created server has an environment that is one of the two
\* values, the one NODE_ENV names.
C27_EnvironmentOneOfTwo ==
  /\ loaded # "none" =>
        (loaded = "index.prod") = (env["NODE_ENV"] = Str(<<"production">>))
  /\ loaded \in {"none", "index.prod", "index.dev"}
  /\ env["NODE_ENV"] \notin {Str(<<"production">>), Str(<<"development">>)} =>
       /\ server = "none"
       /\ currentEnvironment = Undefined
       /\ proc \notin {"bootstrap", "listening"}
       /\ loaded \in {"none", "index.dev"}
  /\ server = "created" =>
       /\ currentEnvironment \in
            {Str(<<"production">>), Str(<<"development">>)}
       /\ currentEnvironment = env["NODE_ENV"]

C27_Witness ==
  /\ proc = "exited"
  /\ env["NODE_ENV"] = Str(<<"test">>)
  /\ loaded = "index.dev"
  /\ currentEnvironment = Undefined
  /\ server = "none"

\* C28 as stated: a boolean option whose text in the environment is "false"
\* is loaded as false, and in development the generator whose flag is
\* "false" is not started.
C28_FalseTextLoadsFalse ==
  ConfigsLoaded =>
    \A g \in Generators :
      env[Flag(g)] = Str(<<"false">>) =>
        /\ envConfig[Flag(g)] = Bool(FALSE)
        /\ g \notin started

\* C26: the step of the bootstrap that initiates the generator imports is
\* the step that calls createServer, and it writes no file; hence whenever
\* a generator has been started or a file written the server has been
\* created, before any file and whatever becomes of the generators, also
\* when one of them fails to write and the process ends.
C26_ServerBeforeGenerators ==
  /\ [][(proc = "bootstrap" /\ proc' # "bootstrap") =>
          /\ server' = "created"
          /\ proc' = "listening"
          /\ files' = NoFiles]_vars
  /\ [](/\ started # {} => server = "created"
        /\ files # NoFiles => server = "created"
        /\ (proc = "exited" /\ ConfigsLoaded) =>
             /\ server = "created"
             /\ \E f \in {ClientFile, DocsFile} :
                   f \notin writable /\ f \notin DOMAIN files
        /\ pc # "idle" => server = "created")

C26_Witness ==
  /\ started = Generators
  /\ files = NoFiles
  /\ server = "created"
  /\ pc = "done"
  /\ response.status = 200


\* the id the request of a slot names, as its endpoint's input schema
\* gives it
OwnId(q) == InputSchema(q.endpoint, RawInput(q.request)).value.id

\* the method of the request of a slot, as its own middleware provides it
OwnMethod(q) == ToLowerCase(q.request.method)

\* C24: whatever other requests are in flight, the context of a request is
\* the one its own middleware built, the line its handler logs has the id
\* and the method of its own request, and its response is the one its own
\* endpoint gives for its own id.
C24_ContextsIsolated ==
  \A i \in Slots :
    LET q == inflight[i]
        get == q.request.method = "GET"
    IN /\ q.pc \in {"input", "handler", "awaiting"} =>
            q.options = [k \in {"method"} |-> OwnMethod(q)]
       /\ q.logged # <<>> =>
            /\ Len(q.logged) = 1
            /\ q.logged[1].id = TemplateString(OwnId(q))
            /\ q.logged[1].method = OwnMethod(q)
            /\ q.logged[1].name = IF get THEN Undefined ELSE q.request.name
       /\ q.pc = "awaiting" =>
            get /\ ~GreaterThan(OwnId(q), NotFoundThreshold)
       /\ q.pc = "done" =>
            /\ q.response.status =
                 IF GreaterThan(OwnId(q), NotFoundThreshold) THEN 404
                 ELSE IF get THEN 200 ELSE 500
            /\ q.response.kind = "success" =>
                 q.response.body["demoData"] \in
                   {Succeed(OwnId(q)).value["demoData"],
                    FailedSafely(OwnId(q), Str(<<"Random error">>))
                      .value["demoData"]}

C24_Witness ==
  /\ inflight[1].pc = "awaiting"
  /\ inflight[1].request.method = "GET"
  /\ inflight[1].request.path = <<V1, USER, <<"5">>>>
  /\ inflight[1].logged[1].method = "get"
  /\ inflight[2].pc = "done"
  /\ inflight[2].request.method = "POST"
  /\ inflight[2].request.path = <<V1, USER, <<"5">>>>
  /\ inflight[2].logged[1].method = "post"
  /\ inflight[2].response.status = 500
====
